---- MODULE Spec2Model ----
(***************************************************************************)
(* Job lifecycle of the MSST-Cloud terminal front-end: TrainingManager     *)
(* (tui/src/training.rs) and InferenceManager (tui/src/inference.rs).      *)
(*                                                                         *)
(* One manager is modelled, of the kind chosen in Init.  Its methods take  *)
(* &mut self, so one call of start or stop runs at a time on a manager;    *)
(* the child processes and the two spawned drain tasks run concurrently    *)
(* with the call, one step at a time.                                      *)
(***************************************************************************)
EXTENDS Integers, Sequences, FiniteSets, TLC

\* ------------------------------------------------------------------ bounds
MaxStarts == 2      \* calls of start_training / run_inference
BigExitCode == 12   \* a two-digit exit code, beside 0 and 1

Pids == 1..MaxStarts
None == 0           \* Option::None of self.process and of the call's child
ExitCodes == {0, 1, BigExitCode}

\* ExitStatus of a child: a code, or no code when a signal ended it.
NoStatus == [signaled |-> FALSE, code |-> -2]
Exited(c) == [signaled |-> FALSE, code |-> c]
Signaled == [signaled |-> TRUE, code |-> -2]

VARIABLES
    kind,       \* "training" or "inference": which manager this is
    process,    \* self.process: None or the pid of the Child it holds
    pc,         \* where the running start call is suspended, or "idle"
    cur,        \* the local `child` of the running start call (None outside)
    status,     \* the local `status` of run_inference, NoStatus before wait
    proc,       \* pid -> the operating system's view of the child process
    task,       \* pid -> the two drain tasks spawned for that child
    nstarts,    \* start calls made so far (the call id of the latest)
    results,    \* the call id of every Result start has returned, in order
    lastResult, \* the latest Result start returned, and the job's state then
    lastStop    \* what the latest stop call saw and returned

vars == <<kind, process, pc, cur, status, proc, task, nstarts, results,
          lastResult, lastStop>>

\* The pure functions of the program, applied to one input at a time.
VARIABLES
    line,       \* the line handed to parse_training_output
    event,      \* what parse_training_output returned for it
    config,     \* the TrainingConfig or InferenceConfig of a start call
    argv,       \* the arguments start built from it for the Command
    applied     \* which function has been applied: "none" before

fnVars == <<line, event, config, argv, applied>>

\* The streams of one job, line by line.
VARIABLES
    pipe,       \* stream -> the lines written and not yet read, in order
    want,       \* the write the child is in: NoWrite, or a stream and a line
    todo,       \* the writes the child's program still has to make
    wroteOut,   \* every line the child wrote to its stdout, in order
    sent,       \* every event handed to progress_tx.send, in order
    rx,         \* whether the receiver of the progress channel still exists
    chan,       \* the events in the channel, sent and not yet received
    sendErrs    \* the calls of send that returned Err (no receiver)

chanVars == <<rx, chan, sendErrs>>
ioVars == <<pipe, want, todo, wroteOut, sent, chanVars>>

\* The terminal front-end: the fields of App.
VARIABLES
    screen,           \* the Screen shown
    selected_index,   \* the highlighted row of the list of that screen
    previous_screen,  \* Option<Screen>: None, or the screen left last
    help_visible,     \* whether the help overlay is drawn
    selected_model,   \* Option<ModelType>: None, or the model chosen
    should_quit       \* set by q and by Esc on Home; ends the key loop

uiVars == <<screen, selected_index, previous_screen, help_visible,
            selected_model, should_quit>>

allVars == <<vars, fnVars, ioVars, uiVars>>

\* ------------------------------------------------------- child processes
\* st: "unborn" (not spawned), "alive", "exited" (a zombie: it has ended and
\* nobody has waited for it) or "reaped" (waited for: the wait took the exit
\* status, the system keeps nothing of the process).
\* out, err: whether the child still holds the write end of the stream.
Unborn == [st |-> "unborn", status |-> NoStatus, out |-> FALSE, err |-> FALSE]
Fresh == [st |-> "alive", status |-> NoStatus, out |-> TRUE, err |-> TRUE]
Reaped == [st |-> "reaped", status |-> NoStatus, out |-> FALSE, err |-> FALSE]

Alive == {p \in Pids : proc[p].st = "alive"}
Spawned == {p \in Pids : proc[p].st # "unborn"}
NextPid == Cardinality(Spawned) + 1

\* A drain task: "none" (never spawned), "running", "eof" (next_line gave
\* Ok(None)), "readerr" (next_line gave Err) or "panicked".
NoTasks == [out |-> "none", err |-> "none"]
TaskOver(t) == t \in {"eof", "readerr", "panicked"}

\* What the latest stop call saw and returned: saw is "never" (no call yet),
\* "idle" (self.process was None) or the state of the process whose handle
\* it took; ok is whether it returned Ok.
NoStop == [saw |-> "never", ok |-> TRUE]

\* The value an Ok carries: () for training, an InferenceResult for
\* inference (success and error_message; an absent message is some = FALSE).
NoValue == [present |-> FALSE, success |-> FALSE, some |-> FALSE, text |-> <<>>]

NoResult == [call |-> 0, ok |-> FALSE, err |-> "", value |-> NoValue,
             pid |-> None, status |-> NoStatus]

\* ---------------------------------------------------------------- Init
\* TrainingManager::new() / InferenceManager::new(), and no call made yet.
ManagerNew ==
    /\ process = None
    /\ pc = "idle"
    /\ cur = None
    /\ status = NoStatus
    /\ proc = [p \in Pids |-> Unborn]
    /\ task = [p \in Pids |-> NoTasks]
    /\ nstarts = 0
    /\ results = <<>>
    /\ lastResult = NoResult
    /\ lastStop = NoStop

\* No pure function applied to anything, and no line written to a stream.
NoWrite == [s |-> "none", line |-> <<>>]
FnIdle ==
    /\ line = <<>> /\ event = <<>> /\ config = <<>> /\ argv = <<>>
    /\ applied = "none"
IoIdle ==
    /\ pipe = [out |-> <<>>, err |-> <<>>]
    /\ want = NoWrite /\ todo = 0
    /\ wroteOut = <<>> /\ sent = <<>>
    /\ rx = TRUE /\ chan = <<>> /\ sendErrs = 0

\* App::new()
AppNew ==
    /\ screen = "Home"
    /\ selected_index = 0
    /\ previous_screen = "None"
    /\ help_visible = FALSE
    /\ selected_model = "None"
    /\ should_quit = FALSE

Init ==
    /\ kind \in {"training", "inference"}
    /\ ManagerNew
    /\ FnIdle
    /\ IoIdle
    /\ AppNew

\* is_running(): self.process.is_some()
is_running == process # None

\* ------------------------------------------------------ results of start
\* i32::to_string, as the sequence of its characters.
Digit(d) == <<"0", "1", "2", "3", "4", "5", "6", "7", "8", "9">>[d + 1]

RECURSIVE NatToString(_)
NatToString(n) ==
    IF n < 10 THEN <<Digit(n)>>
    ELSE Append(NatToString(n \div 10), Digit(n % 10))

to_string(n) == IF n < 0 THEN <<"-">> \o NatToString(-n) ELSE NatToString(n)

\* ExitStatus::success() and ExitStatus::code()
success(s) == ~s.signaled /\ s.code = 0
code(s) == IF s.signaled THEN [some |-> FALSE, v |-> 0]
           ELSE [some |-> TRUE, v |-> s.code]
unwrap_or(o, d) == IF o.some THEN o.v ELSE d

\* InferenceResult with the sentinel of an absent exit code left at 0.
InferenceResult_sentinel_zero(s) ==
    IF success(s)
    THEN [present |-> TRUE, success |-> TRUE, some |-> FALSE, text |-> <<>>]
    ELSE [present |-> TRUE, success |-> FALSE, some |-> TRUE,
          text |-> <<"Process exited with code: ">>
                   \o to_string(unwrap_or(code(s), 0))]

InferenceResult(s) ==
    IF success(s)
    THEN [present |-> TRUE, success |-> TRUE, some |-> FALSE, text |-> <<>>]
    ELSE [present |-> TRUE, success |-> FALSE, some |-> TRUE,
          text |-> <<"Process exited with code: ">>
                   \o to_string(unwrap_or(code(s), -1))]

\* The return of start: Ok(value) or Err(err), for the child pid (None when
\* nothing was spawned); status is the exit status the call's wait gave it
\* (NoStatus when it did not wait).
Return(ok, err, value, pid) ==
    /\ results' = Append(results, nstarts')
    /\ lastResult' = [call |-> nstarts', ok |-> ok, err |-> err,
                      value |-> value, pid |-> pid, status |-> status]
    /\ pc' = "idle"
    /\ cur' = None
    /\ status' = NoStatus

\* ------------------------------------------------------------------ start
\* Command::spawn and the two Option::take of the piped streams.  `spawned`
\* is whether the operating system started the program; gotOut, gotErr are
\* whether child.stdout / child.stderr held a stream: the Command sets no
\* Stdio of its own, so that rests with the runtime and the platform, and
\* both outcomes are kept.  A Child that goes out of scope is dropped
\* without a kill (kill_on_drop is not set): its process keeps running.
start_training ==
    /\ kind = "training" /\ pc = "idle" /\ nstarts < MaxStarts
    /\ nstarts' = nstarts + 1
    /\ UNCHANGED <<uiVars, fnVars, ioVars, kind, lastStop>>
    /\ \E spawned, gotOut, gotErr \in BOOLEAN :
         IF ~spawned
         THEN /\ UNCHANGED <<process, proc, task>>
              /\ Return(FALSE, "Failed to spawn training process", NoValue, None)
         ELSE LET child == NextPid IN
              /\ proc' = [proc EXCEPT ![child] = Fresh]
              /\ IF ~gotOut
                 THEN /\ UNCHANGED <<process, task>>
                      /\ Return(FALSE, "Failed to capture stdout", NoValue, child)
                 ELSE IF ~gotErr
                 THEN /\ UNCHANGED <<process, task>>
                      /\ Return(FALSE, "Failed to capture stderr", NoValue, child)
                 ELSE /\ task' = [task EXCEPT ![child] =
                                     [out |-> "running", err |-> "running"]]
                      /\ process' = child          \* self.process = Some(child)
                      /\ cur' = child
                      /\ pc' = "join_stdout"       \* stdout_task.await
                      /\ UNCHANGED <<status, results, lastResult>>

\* stdout_task.await.context("stdout task failed")?
training_join_stdout ==
    /\ kind = "training" /\ pc = "join_stdout"
    /\ TaskOver(task[cur].out)
    /\ UNCHANGED <<uiVars, fnVars, ioVars, kind, process, proc, task, nstarts, lastStop>>
    /\ IF task[cur].out = "panicked"
       THEN Return(FALSE, "stdout task failed", NoValue, cur)
       ELSE pc' = "join_stderr" /\ UNCHANGED <<cur, status, results, lastResult>>

\* stderr_task.await.context("stderr task failed")?; Ok(())
training_join_stderr ==
    /\ kind = "training" /\ pc = "join_stderr"
    /\ TaskOver(task[cur].err)
    /\ UNCHANGED <<uiVars, fnVars, ioVars, kind, process, proc, task, nstarts, lastStop>>
    /\ IF task[cur].err = "panicked"
       THEN Return(FALSE, "stderr task failed", NoValue, cur)
       ELSE Return(TRUE, "", NoValue, cur)

run_inference ==
    /\ kind = "inference" /\ pc = "idle" /\ nstarts < MaxStarts
    /\ nstarts' = nstarts + 1
    /\ UNCHANGED <<uiVars, fnVars, ioVars, kind, process, lastStop>>
    /\ \E spawned, gotOut, gotErr \in BOOLEAN :
         IF ~spawned
         THEN /\ UNCHANGED <<proc, task>>
              /\ Return(FALSE, "Failed to spawn inference process", NoValue, None)
         ELSE LET child == NextPid IN
              /\ proc' = [proc EXCEPT ![child] = Fresh]
              /\ IF ~gotOut
                 THEN /\ UNCHANGED task
                      /\ Return(FALSE, "Failed to capture stdout", NoValue, child)
                 ELSE IF ~gotErr
                 THEN /\ UNCHANGED task
                      /\ Return(FALSE, "Failed to capture stderr", NoValue, child)
                 ELSE /\ task' = [task EXCEPT ![child] =
                                     [out |-> "running", err |-> "running"]]
                      /\ cur' = child
                      /\ pc' = "wait"              \* child.wait().await
                      /\ UNCHANGED <<status, results, lastResult>>

\* child.wait() returns once the process has ended, and reaps it.
inference_wait ==
    /\ kind = "inference" /\ pc = "wait"
    /\ proc[cur].st = "exited"
    /\ proc' = [proc EXCEPT ![cur] = Reaped]
    /\ status' = proc[cur].status
    /\ pc' = "join_stdout"
    /\ UNCHANGED <<uiVars, fnVars, ioVars, kind, process, cur, task, nstarts, results, lastResult, lastStop>>

inference_join_stdout ==
    /\ kind = "inference" /\ pc = "join_stdout"
    /\ TaskOver(task[cur].out)
    /\ UNCHANGED <<uiVars, fnVars, ioVars, kind, process, proc, task, nstarts, lastStop>>
    /\ IF task[cur].out = "panicked"
       THEN Return(FALSE, "stdout task failed", NoValue, cur)
       ELSE pc' = "join_stderr" /\ UNCHANGED <<cur, status, results, lastResult>>

inference_join_stderr ==
    /\ kind = "inference" /\ pc = "join_stderr"
    /\ TaskOver(task[cur].err)
    /\ UNCHANGED <<uiVars, fnVars, ioVars, kind, process, proc, task, nstarts, lastStop>>
    /\ IF task[cur].err = "panicked"
       THEN Return(FALSE, "stderr task failed", NoValue, cur)
       ELSE Return(TRUE, "", InferenceResult(status), cur)

\* ------------------------------------------------------------ drain tasks
\* while let Ok(Some(line)) = lines.next_line().await { .. }: the loop ends
\* at end-of-stream (every write end of the pipe is closed), at a read error
\* (such as a line that is not UTF-8), or by a panic of its body when
\* canPanic (println! and eprintln! panic when the write fails).
drain(p, s, canPanic) ==
    /\ task[p][s] = "running"
    /\ \E how \in {"eof", "readerr"} \cup (IF canPanic THEN {"panicked"} ELSE {}) :
         /\ how = "eof" => ~proc[p][s]
         /\ task' = [task EXCEPT ![p][s] = how]
    /\ UNCHANGED <<uiVars, fnVars, ioVars, kind, process, pc, cur, status, proc, nstarts, results,
                   lastResult, lastStop>>

training_stdout_task == \E p \in Pids : kind = "training" /\ drain(p, "out", FALSE)
training_stderr_task == \E p \in Pids : kind = "training" /\ drain(p, "err", TRUE)
inference_stderr_task == \E p \in Pids : kind = "inference" /\ drain(p, "err", TRUE)
inference_stdout_task == \E p \in Pids : kind = "inference" /\ drain(p, "out", TRUE)

\* --------------------------------------------------------- the child (OS)
\* The external program: it may close either stream while it runs (a step
\* that only a drain still reading that stream can tell), and it ends by
\* exiting with a code or by a signal from outside the manager; ending
\* closes its streams.
child_close ==
    \E p \in Alive, s \in {"out", "err"} :
        /\ proc[p][s]
        /\ task[p][s] = "running"
        /\ proc' = [proc EXCEPT ![p][s] = FALSE]
        /\ UNCHANGED <<uiVars, fnVars, ioVars, kind, process, pc, cur, status, task, nstarts, results,
                       lastResult, lastStop>>

Ended(s) == [st |-> "exited", status |-> s, out |-> FALSE, err |-> FALSE]

child_exit ==
    \E p \in Alive, c \in ExitCodes :
        /\ proc' = [proc EXCEPT ![p] = Ended(Exited(c))]
        /\ UNCHANGED <<uiVars, fnVars, ioVars, kind, process, pc, cur, status, task, nstarts, results,
                       lastResult, lastStop>>

child_signaled ==
    \E p \in Alive :
        /\ proc' = [proc EXCEPT ![p] = Ended(Signaled)]
        /\ UNCHANGED <<uiVars, fnVars, ioVars, kind, process, pc, cur, status, task, nstarts, results,
                       lastResult, lastStop>>

\* ------------------------------------------------------------------- stop
\* Child::kill().await on a process in state p: SIGKILL, then wait.  A live
\* process ends by the signal and is reaped; a process that has ended and
\* was never waited for takes the signal without effect and is reaped with
\* its own status; a Child already waited for is refused or accepted,
\* by the version of the runtime.
\* kill refusing a process that has already ended ("can't kill an exited
\* process"), the handle being left unreaped.
kill_refuses_exited(p) ==
    IF p.st = "alive"
    THEN {[p |-> Reaped, ok |-> TRUE]}
    ELSE {[p |-> p, ok |-> FALSE]}

kill(p) ==
    IF p.st = "alive"
    THEN {[p |-> Reaped, ok |-> TRUE]}
    ELSE IF p.st = "exited"
    THEN {[p |-> Reaped, ok |-> TRUE]}
    ELSE {[p |-> p, ok |-> TRUE], [p |-> p, ok |-> FALSE]}

\* stop returning an error when there is no job to stop.
stop_errs_on_idle ==
    /\ pc = "idle"
    /\ IF process # None
       THEN \E k \in kill(proc[process]) :
              /\ process' = None
              /\ proc' = [proc EXCEPT ![process] = k.p]
              /\ lastStop' = [saw |-> proc[process].st, ok |-> k.ok]
       ELSE /\ UNCHANGED <<process, proc>>
            /\ lastStop' = [saw |-> "idle", ok |-> FALSE]
    /\ UNCHANGED <<uiVars, fnVars, ioVars, kind, pc, cur, status, task, nstarts, results, lastResult>>

\* stop emitting a terminal result of its own for the job it stopped.
stop_emits_result ==
    /\ pc = "idle"
    /\ IF process # None
       THEN \E k \in kill(proc[process]) :
              /\ process' = None
              /\ proc' = [proc EXCEPT ![process] = k.p]
              /\ lastStop' = [saw |-> proc[process].st, ok |-> k.ok]
              /\ results' = Append(results, nstarts)
       ELSE /\ UNCHANGED <<process, proc, results>>
            /\ lastStop' = [saw |-> "idle", ok |-> TRUE]
    /\ UNCHANGED <<uiVars, fnVars, ioVars, kind, pc, cur, status, task, nstarts, lastResult>>

\* if let Some(mut child) = self.process.take() { child.kill().await? }; Ok(())
stop ==
    /\ pc = "idle"
    /\ IF process # None
       THEN \E k \in kill(proc[process]) :
              /\ process' = None
              /\ proc' = [proc EXCEPT ![process] = k.p]
              /\ lastStop' = [saw |-> proc[process].st, ok |-> k.ok]
       ELSE /\ UNCHANGED <<process, proc>>
            /\ lastStop' = [saw |-> "idle", ok |-> TRUE]
    /\ UNCHANGED <<uiVars, fnVars, ioVars, kind, pc, cur, status, task, nstarts, results, lastResult>>

stop_training == kind = "training" /\ stop
stop_inference == kind = "inference" /\ stop

\* ------------------------------------------------------------------ Next
Next ==
    \/ start_training
    \/ training_join_stdout
    \/ training_join_stderr
    \/ training_stdout_task
    \/ training_stderr_task
    \/ stop_training
    \/ run_inference
    \/ inference_wait
    \/ inference_join_stdout
    \/ inference_join_stderr
    \/ inference_stdout_task
    \/ inference_stderr_task
    \/ stop_inference
    \/ child_close
    \/ child_exit
    \/ child_signaled

Spec == Init /\ [][Next]_vars

\* ----------------------------------------------------- an abandoned start
\* The caller drops the future of start at one of its await points (as
\* select!, a timeout or an aborted task does): the call returns nothing,
\* its locals are dropped (the JoinHandles, which leaves the drain tasks
\* running, and in run_inference the Child, without a kill), and the
\* manager is free for the next call.  self.process keeps what
\* start_training assigned.  This is the one way in which stop can be
\* called on a manager while the job it started is still being drained.
drop_start ==
    /\ pc # "idle"
    /\ pc' = "idle"
    /\ cur' = None
    /\ status' = NoStatus
    /\ UNCHANGED <<uiVars, fnVars, ioVars, kind, process, proc, task, nstarts, results, lastResult,
                   lastStop>>

CancelNext == Next \/ drop_start

CancelSpec == Init /\ [][CancelNext]_vars

\* ================================================================ claims
\* A step in which start (start_training or run_inference) is called.
StartCalled == nstarts' = nstarts + 1
\* A step in which start returns its Result.
StartReturns == Len(results') = Len(results) + 1
\* The job of child p is Running: its streams were captured, its drains were
\* launched, and the process has not ended.
Running(p) == proc[p].st = "alive" /\ task[p].out # "none"

\* C1: a start called while the manager owns a handle returns the error
\* "job already running", spawns no process and leaves the handle in place.
C1_StartRejectedWhileOwned ==
    [][(StartCalled /\ is_running) =>
          /\ StartReturns
          /\ ~lastResult'.ok /\ lastResult'.err = "job already running"
          /\ proc' = proc
          /\ process' = process]_vars

\* C2: at most one job of the manager is Running at a time: no two start
\* calls both create a job whose process is alive.
C2_AtMostOneLiveChild == Cardinality({p \in Pids : Running(p)}) <= 1

\* C3: is_running() is true while the spawned process of the running job is
\* still executing, and false once the job's process has ended by itself
\* and start has returned, no stop having been called.
C3_IsRunningIffJobActive ==
    /\ (pc # "idle" /\ Running(cur)) => is_running
    /\ (pc = "idle" /\ lastStop.saw = "never" /\ lastResult.pid # None
          /\ proc[lastResult.pid].st \in {"exited", "reaped"}) => ~is_running

\* C4: when stop is called with a job Running and returns Ok, no job of
\* the manager is Running any more (its process was killed and has ended)
\* and is_running() is false.
C4_StopKillsRunningJob ==
    [][(stop /\ (\E p \in Pids : Running(p)) /\ lastStop'.ok) =>
          /\ \A p \in Pids : ~Running(p)'
          /\ ~is_running']_vars

\* C5: stop on a manager that owns no handle returns Ok and changes nothing:
\* is_running() is false before and after, and no process or drain is
\* touched.
C5_StopOnIdleIsNoOp ==
    [][(stop /\ ~is_running) =>
          /\ lastStop'.ok
          /\ ~is_running'
          /\ proc' = proc /\ task' = task
          /\ results' = results /\ lastResult' = lastResult]_vars

\* C5 witness: a stop has run on a manager with children spawned but with
\* no handle owned, and returned Ok.
C5_Witness == lastStop.saw = "idle" /\ lastStop.ok /\ Alive # {}

\* The drain ended by itself: at end-of-stream, or at a read error, which
\* counts as end-of-stream.
Drained(t) == t \in {"eof", "readerr"}

\* C6: start returns its terminal result only after the stdout drain and
\* the stderr drain have ended and the wait for the process has returned.
C6_ResultAfterAllThree ==
    [][(StartReturns /\ lastResult'.ok) =>
          LET p == lastResult'.pid IN
          /\ Drained(task'[p].out)
          /\ Drained(task'[p].err)
          /\ proc'[p].st = "reaped"]_vars

\* Reading a decimal numeral back: w is an optional "-" and digits.
DigitValue(ch) ==
    CASE ch = "0" -> 0 [] ch = "1" -> 1 [] ch = "2" -> 2 [] ch = "3" -> 3
      [] ch = "4" -> 4 [] ch = "5" -> 5 [] ch = "6" -> 6 [] ch = "7" -> 7
      [] ch = "8" -> 8 [] ch = "9" -> 9 [] OTHER -> -1

AllDigits(w) == Len(w) > 0 /\ \A i \in 1..Len(w) : DigitValue(w[i]) >= 0

RECURSIVE DigitsValue(_)
DigitsValue(w) ==
    IF Len(w) = 0 THEN 0
    ELSE 10 * DigitsValue(SubSeq(w, 1, Len(w) - 1)) + DigitValue(w[Len(w)])

IsNumeral(w) ==
    \/ AllDigits(w)
    \/ Len(w) > 1 /\ w[1] = "-" /\ AllDigits(Tail(w))

NumeralValue(w) == IF w[1] = "-" THEN -DigitsValue(Tail(w)) ELSE DigitsValue(w)

\* The text contains the numeral of n.
Mentions(text, n) ==
    \E i, j \in 1..Len(text) :
        /\ i <= j
        /\ IsNumeral(SubSeq(text, i, j))
        /\ NumeralValue(SubSeq(text, i, j)) = n

\* C7: an inference job that was spawned and waited for, and whose result
\* was returned: success is true with no error message exactly when the
\* process exited with code 0; otherwise success is false and the message
\* contains the exit code, or -1 when a signal ended the process.
C7_InferenceResultMatchesExit ==
    (kind = "inference" /\ lastResult.ok) =>
        LET s == lastResult.status
            v == lastResult.value
        IN  /\ s # NoStatus
            /\ v.present
            /\ v.success <=> (~s.signaled /\ s.code = 0)
            /\ v.success => ~v.some
            /\ ~v.success =>
                 /\ v.some
                 /\ Mentions(v.text, IF s.signaled THEN -1 ELSE s.code)

\* C7 witness: an inference result for a process that a signal ended.
C7_Witness ==
    /\ kind = "inference" /\ lastResult.ok
    /\ lastResult.status.signaled
    /\ ~lastResult.value.success

\* C8: a training job whose process has ended with a non-zero or abnormal
\* status when start_training returns is reported as failed, with a message.
C8_TrainingFailureReported ==
    [][(StartReturns /\ kind = "training" /\ lastResult'.pid # None
          /\ proc'[lastResult'.pid].st = "exited"
          /\ ~success(proc'[lastResult'.pid].status)) =>
          (~lastResult'.ok /\ lastResult'.err # "")]_vars

\* The terminal results emitted for start call c.
Emitted(c) == Cardinality({i \in 1..Len(results) : results[i] = c})

C10_StopAfterNaturalExit ==
    /\ [](is_running => proc[process].st \in {"alive", "exited"})
    /\ [][(stop /\ is_running /\ proc[process].st = "exited") =>
             /\ lastStop'.ok
             /\ ~is_running'
             /\ proc'[process].st = "reaped"]_vars

\* C10 witness: a stop that found its process already ended, and returned
\* Ok with the handle released.
C10_Witness == lastStop.saw = "exited" /\ lastStop.ok /\ ~is_running

\* C12: after a start call that failed to spawn its process, start has
\* returned an error and is_running() is false, whatever the manager did
\* before (no process of an earlier job being alive).
C12_SpawnFailureNotRunning ==
    [][(StartCalled /\ StartReturns /\ lastResult'.pid = None /\ Alive = {}) =>
          (~lastResult'.ok /\ ~is_running')]_vars

\* C18: when start returns, on any path, the process it spawned is not left
\* running without an owner: it has ended, or the manager holds its handle.
C18_NoOrphanOnReturn ==
    [][(StartReturns /\ lastResult'.pid # None) =>
          (proc'[lastResult'.pid].st = "alive" => process' = lastResult'.pid)]_vars

\* C19: stop returns only after both drains of the job it stops are over:
\* none is still reading when stop has returned.
C19_StopAfterDrains ==
    [][(stop /\ is_running) =>
          (TaskOver(task'[process].out) /\ TaskOver(task'[process].err))]_vars

\* =================================================== parse_training_output
\* A line is a sequence of symbols: the two markers, each as one symbol (no
\* occurrence of "epoch:" or "SDR:" overlaps another, so a line splits into
\* markers and other characters in one way only), and characters: a blank,
\* a digit, the point, the minus sign and a letter.
MaxLineLen == 5

Chars == {" ", "1", ".", "-", "a"}
Symbols == {"epoch:", "SDR:"} \cup Chars
Lines == UNION {[1..n -> Symbols] : n \in 0..MaxLineLen}

\* Option<T>: Some(x), or nothing (with a value of T's shape in v).
Some(x) == [some |-> TRUE, v |-> x]
Nothing(x) == [some |-> FALSE, v |-> x]

\* f64, as sign, decimal digits and the number of digits after the point.
F64(neg, mant, scale) == [neg |-> neg, mant |-> mant, scale |-> scale]
Zero == F64(FALSE, 0, 0)
NoF64 == Nothing(Zero)

\* TrainingProgress { epoch, train_loss: 0.0, sdr, every other field None }
TrainingProgress(epoch, sdr) ==
    [epoch |-> epoch, train_loss |-> Zero, valid_loss |-> NoF64, sdr |-> sdr,
     sir |-> NoF64, sar |-> NoF64, isr |-> NoF64, gpu_memory |-> NoF64,
     gpu_utilization |-> NoF64]

NoEvent == Nothing(TrainingProgress(0, NoF64))

\* char::is_whitespace, char::is_ascii_digit, char::to_digit(10)
is_whitespace(ch) == ch = " "
is_ascii_digit(ch) == \E d \in 0..9 : Digit(d) = ch
to_digit(ch) == CHOOSE d \in 0..9 : Digit(d) = ch

\* str::contains(pat)
contains(s, pat) == \E i \in 1..Len(s) : s[i] = pat

\* str::split(pat): the pieces between the occurrences of pat, in order.
RECURSIVE split(_, _)
split(s, pat) ==
    IF ~contains(s, pat) THEN <<s>>
    ELSE LET i == CHOOSE k \in 1..Len(s) :
                      s[k] = pat /\ \A j \in 1..(k - 1) : s[j] # pat
         IN  <<SubSeq(s, 1, i - 1)>> \o split(SubSeq(s, i + 1, Len(s)), pat)

\* Iterator::nth keeping the last piece instead of the n-th.
nth_last(xs, n) == IF n < Len(xs) THEN Some(xs[Len(xs)]) ELSE Nothing(<<>>)

\* Iterator::nth(n), counting from 0, and Iterator::next()
nth(xs, n) == IF n < Len(xs) THEN Some(xs[n + 1]) ELSE Nothing(<<>>)
next(xs) == nth(xs, 0)

\* str::trim()
RECURSIVE trim_start(_)
trim_start(s) ==
    IF s # <<>> /\ is_whitespace(s[1]) THEN trim_start(Tail(s)) ELSE s

RECURSIVE trim_end(_)
trim_end(s) ==
    IF s # <<>> /\ is_whitespace(s[Len(s)])
    THEN trim_end(SubSeq(s, 1, Len(s) - 1)) ELSE s

trim(s) == trim_end(trim_start(s))

\* str::split_whitespace(): the non-empty runs of non-blank symbols.
RECURSIVE split_whitespace(_)
split_whitespace(s) ==
    LET t == trim_start(s) IN
    IF t = <<>> THEN <<>>
    ELSE LET k == CHOOSE n \in 1..Len(t) :
                      /\ \A j \in 1..n : ~is_whitespace(t[j])
                      /\ n = Len(t) \/ is_whitespace(t[n + 1])
         IN  <<SubSeq(t, 1, k)>> \o split_whitespace(SubSeq(t, k + 1, Len(t)))

\* The value of a run of digits.
RECURSIVE from_digits(_)
from_digits(w) ==
    IF w = <<>> THEN 0
    ELSE 10 * from_digits(SubSeq(w, 1, Len(w) - 1)) + to_digit(w[Len(w)])

\* Result<T, E> of a parse: ok, and the value when ok.
\* str::parse::<usize>() giving 0 for a text that is no number.
usize_or_zero(w) ==
    LET t == IF w # <<>> /\ w[1] = "+" THEN Tail(w) ELSE w IN
    IF t # <<>> /\ \A i \in 1..Len(t) : is_ascii_digit(t[i])
    THEN [ok |-> TRUE, v |-> from_digits(t)]
    ELSE [ok |-> TRUE, v |-> 0]

\* str::parse::<usize>(): digits, after an optional "+"; no "-", no blank.
\* (A numeral above usize::MAX is an error too: 20 digits and more, beyond
\* the lines drawn here.)
usize_from_str(w) ==
    LET t == IF w # <<>> /\ w[1] = "+" THEN Tail(w) ELSE w IN
    IF t # <<>> /\ \A i \in 1..Len(t) : is_ascii_digit(t[i])
    THEN [ok |-> TRUE, v |-> from_digits(t)]
    ELSE [ok |-> FALSE, v |-> 0]

\* str::parse::<f64>() on decimal text: an optional sign, digits with at
\* most one point among them, one digit at least.  (Exponents and the words
\* inf, infinity and nan, which it accepts too, need letters that the lines
\* drawn here do not hold.)
f64_from_str(w) ==
    LET neg == w # <<>> /\ w[1] = "-"
        t == IF w # <<>> /\ w[1] \in {"+", "-"} THEN Tail(w) ELSE w
        parts == split(t, ".")
        digits == IF Len(parts) = 2 THEN parts[1] \o parts[2] ELSE parts[1]
    IN  IF /\ Len(parts) <= 2
           /\ digits # <<>>
           /\ \A i \in 1..Len(digits) : is_ascii_digit(digits[i])
        THEN [ok |-> TRUE,
              v |-> F64(neg, from_digits(digits),
                        IF Len(parts) = 2 THEN Len(parts[2]) ELSE 0)]
        ELSE [ok |-> FALSE, v |-> Zero]

\* Result::ok()
ok(r) == [some |-> r.ok, v |-> r.v]

\* parse_training_output without its "SDR:" rule.
parse_epoch_only(l) ==
    IF contains(l, "epoch:")
    THEN LET piece == nth(split(l, "epoch:"), 1) IN
         IF ~piece.some THEN NoEvent
         ELSE LET epoch_str == next(split_whitespace(trim(piece.v))) IN
              IF ~epoch_str.some THEN NoEvent
              ELSE LET epoch == ok(usize_from_str(epoch_str.v)) IN
                   IF ~epoch.some THEN NoEvent
                   ELSE Some(TrainingProgress(epoch.v, NoF64))
    ELSE NoEvent

\* The two rules of parse_training_output, each by itself: the text after
\* the first marker up to the next one, its first token, the numeric parse.
epoch_rule(l) ==
    LET epoch_str == next(split_whitespace(trim(nth(split(l, "epoch:"), 1).v)))
        epoch == ok(usize_from_str(epoch_str.v))
    IN  IF contains(l, "epoch:") /\ epoch_str.some /\ epoch.some
        THEN Some(TrainingProgress(epoch.v, NoF64))
        ELSE NoEvent

sdr_rule(l) ==
    LET sdr_str == next(split_whitespace(trim(nth(split(l, "SDR:"), 1).v)))
        sdr == ok(f64_from_str(sdr_str.v))
    IN  IF contains(l, "SDR:") /\ sdr_str.some /\ sdr.some
        THEN Some(TrainingProgress(0, Some(sdr.v)))
        ELSE NoEvent

\* parse_training_output trying the "SDR:" rule before the "epoch:" rule.
parse_sdr_first(l) ==
    IF contains(l, "SDR:") THEN sdr_rule(l) ELSE epoch_rule(l)

\* parse_training_output going on to the "SDR:" rule when the "epoch:" rule
\* found no integer.
parse_falls_through(l) ==
    IF epoch_rule(l).some THEN epoch_rule(l) ELSE sdr_rule(l)

\* Each `?` returns None from the whole function.
parse_training_output(l) ==
    IF contains(l, "epoch:")
    THEN LET piece == nth(split(l, "epoch:"), 1) IN
         IF ~piece.some THEN NoEvent
         ELSE LET epoch_str == next(split_whitespace(trim(piece.v))) IN
              IF ~epoch_str.some THEN NoEvent
              ELSE LET epoch == ok(usize_from_str(epoch_str.v)) IN
                   IF ~epoch.some THEN NoEvent
                   ELSE Some(TrainingProgress(epoch.v, NoF64))
    ELSE IF contains(l, "SDR:")
    THEN LET piece == nth(split(l, "SDR:"), 1) IN
         IF ~piece.some THEN NoEvent
         ELSE LET sdr_str == next(split_whitespace(trim(piece.v))) IN
              IF ~sdr_str.some THEN NoEvent
              ELSE LET sdr == ok(f64_from_str(sdr_str.v)) IN
                   IF ~sdr.some THEN NoEvent
                   ELSE Some(TrainingProgress(0, Some(sdr.v)))
    ELSE NoEvent

\* The function applied to one line, any line of the bounded set.
ParseInit ==
    /\ kind = "training"
    /\ ManagerNew
    /\ IoIdle
    /\ line \in Lines
    /\ event = NoEvent
    /\ config = <<>> /\ argv = <<>>
    /\ applied = "none"
    /\ AppNew

parse_line ==
    /\ applied = "none"
    /\ event' = parse_training_output(line)
    /\ applied' = "parse"
    /\ UNCHANGED <<vars, uiVars, ioVars, line, config, argv>>

ParseNext == parse_line

ParseSpec == ParseInit /\ [][ParseNext]_allVars

\* ------------------------------------------- claims on the parsing of lines
\* The first occurrence of marker m in line s (s holds one).
FirstMarker(s, m) ==
    CHOOSE i \in 1..Len(s) : s[i] = m /\ \A j \in 1..(i - 1) : s[j] # m

\* The token after position i of line s: the symbols from the first
\* non-blank one after i up to the next blank or symbol of `stops`; empty
\* when there is none.
TokenUntil(s, i, stops) ==
    LET starts == {j \in (i + 1)..Len(s) : s[j] # " "} IN
    IF starts = {} THEN <<>>
    ELSE LET a == CHOOSE j \in starts : \A k \in starts : j <= k
             ends == {k \in a..Len(s) :
                        \A n \in a..k : s[n] \notin ({" "} \cup stops)}
         IN  IF ends = {} THEN <<>>
             ELSE SubSeq(s, a, CHOOSE k \in ends : \A n \in ends : n <= k)

\* The whitespace-delimited token that follows position i.
TokenAfter(s, i) == TokenUntil(s, i, {})

\* A decimal numeral: an optional minus sign, then digits with at most one
\* point among them and one digit at least; and the number it denotes.
Unsigned(w) == IF w # <<>> /\ w[1] = "-" THEN Tail(w) ELSE w
Points(w) == {i \in 1..Len(w) : w[i] = "."}
IsDecimal(w) ==
    LET u == Unsigned(w) IN
    /\ Cardinality(Points(u)) <= 1
    /\ Cardinality(Points(u)) < Len(u)
    /\ \A i \in (1..Len(u)) \ Points(u) : DigitValue(u[i]) >= 0
NotPoint(ch) == ch # "."
DecimalValue(w) ==
    LET u == Unsigned(w) IN
    F64(w[1] = "-", DigitsValue(SelectSeq(u, NotPoint)),
        IF Points(u) = {} THEN 0 ELSE Len(u) - (CHOOSE i \in Points(u) : TRUE))

\* C15 as stated: whichever occurrence of "epoch:" in the line is followed
\* by a whitespace-delimited token that is a non-negative integer, the
\* function returns an event whose epoch is that integer.
C15_EpochOfAnyMarker ==
    applied = "parse" =>
        \A i \in 1..Len(line) :
            (line[i] = "epoch:" /\ AllDigits(TokenAfter(line, i))) =>
                /\ event.some
                /\ event.v.epoch = DigitsValue(TokenAfter(line, i))

\* C15, amended: when the first occurrence of "epoch:" in the line is
\* followed by a whitespace-delimited token that is a non-negative integer,
\* the function returns an event whose epoch is that integer, whatever text
\* precedes the marker and whatever follows the token, further occurrences
\* of the marker included.
C15_EpochOfFirstMarker ==
    (applied = "parse" /\ contains(line, "epoch:")) =>
        LET token == TokenAfter(line, FirstMarker(line, "epoch:")) IN
        AllDigits(token) =>
            /\ event.some
            /\ event.v.epoch = DigitsValue(token)
            /\ ~event.v.sdr.some

\* C15 witness: text, then the marker with the integer 1, a blank and the
\* marker again; the event holds epoch 1.
C15_Witness ==
    /\ applied = "parse"
    /\ Cardinality({i \in 1..Len(line) : line[i] = "epoch:"}) >= 2
    /\ FirstMarker(line, "epoch:") > 1
    /\ TokenAfter(line, FirstMarker(line, "epoch:")) = <<"1">>
    /\ event.some /\ event.v.epoch = 1

\* C16 as stated: whichever occurrence of "SDR:" in the line is followed by
\* a whitespace-delimited token that is a decimal number, the function
\* returns a metric event whose sdr is that number.
C16_SdrOfAnyLine ==
    applied = "parse" =>
        \A i \in 1..Len(line) :
            (line[i] = "SDR:" /\ IsDecimal(TokenAfter(line, i))) =>
                /\ event.some
                /\ event.v.sdr = Some(DecimalValue(TokenAfter(line, i)))

\* C16, amended: when the line holds no "epoch:" marker and the first
\* occurrence of "SDR:" in it is followed by a whitespace-delimited token
\* that is a decimal number, the function returns a metric event whose sdr
\* is that number.
C16_SdrWithoutEpochMarker ==
    (applied = "parse" /\ contains(line, "SDR:") /\ ~contains(line, "epoch:")) =>
        LET token == TokenAfter(line, FirstMarker(line, "SDR:")) IN
        IsDecimal(token) =>
            /\ event.some
            /\ event.v.sdr = Some(DecimalValue(token))
            /\ event.v.epoch = 0

\* C16 witness: a negative number with a fraction after the marker.
C16_Witness ==
    /\ applied = "parse"
    /\ ~contains(line, "epoch:") /\ contains(line, "SDR:")
    /\ TokenAfter(line, FirstMarker(line, "SDR:")) = <<"-", "1", ".", "1">>
    /\ event.some /\ event.v.sdr = Some(F64(TRUE, 11, 1))

\* No marker of the line has a number after it: after each "epoch:" the
\* token (read up to the next blank or the next "epoch:") is missing or no
\* integer, after each "SDR:" it is missing or no decimal number.
NoNumberAfterMarker(s) ==
    \A i \in 1..Len(s) :
        /\ s[i] = "epoch:" => ~AllDigits(TokenUntil(s, i, {"epoch:"}))
        /\ s[i] = "SDR:" => ~IsDecimal(TokenUntil(s, i, {"SDR:"}))

MaxPaths == 2       \* entries of data_paths
MaxIds == 2         \* entries of device_ids

Paths == {<<"/a">>, <<"/b">>}
Workers == {0, 4, 12}
DeviceIds == {0, 11}

SeqsUpTo(S, n) == UNION {[1..k -> S] : k \in 0..n}
Option(S, none) == {Nothing(none)} \cup {Some(x) : x \in S}

ModelType ==
    {"MDX23C", "HtDemucs", "VitLarge23", "TorchSeg", "BsRoformer",
     "MelBandRoformer", "SwinUpernet", "BandIt", "ScNet", "BandItV2",
     "Apollo", "TsBsMamba2", "Conformer", "BsConformer", "ScNetTran",
     "ScNetMasked"}

\* ModelType::key()
key(m) ==
    CASE m = "MDX23C" -> <<"mdx23c">>
      [] m = "HtDemucs" -> <<"htdemucs">>
      [] m = "VitLarge23" -> <<"segm_models">>
      [] m = "TorchSeg" -> <<"torchseg">>
      [] m = "BsRoformer" -> <<"bs_roformer">>
      [] m = "MelBandRoformer" -> <<"mel_band_roformer">>
      [] m = "SwinUpernet" -> <<"swin_upernet">>
      [] m = "BandIt" -> <<"bandit">>
      [] m = "ScNet" -> <<"scnet">>
      [] m = "BandItV2" -> <<"bandit_v2">>
      [] m = "Apollo" -> <<"apollo">>
      [] m = "TsBsMamba2" -> <<"bs_mamba2">>
      [] m = "Conformer" -> <<"conformer">>
      [] m = "BsConformer" -> <<"bs_conformer">>
      [] m = "ScNetTran" -> <<"scnet_tran">>
      [] m = "ScNetMasked" -> <<"scnet_masked">>

TrainingConfig ==
    [model_type : ModelType,
     config_path : {<<"/c">>},
     start_checkpoint : Option(Paths, <<>>),
     results_path : {<<"/r">>},
     data_paths : SeqsUpTo(Paths, MaxPaths),
     valid_path : Option(Paths, <<>>),
     num_workers : Option(Workers, 0),
     device_ids : Option(SeqsUpTo(DeviceIds, MaxIds), <<>>)]

InferenceConfig ==
    [model_type : ModelType,
     config_path : Paths,
     start_checkpoint : Paths,
     input_folder : Paths,
     store_dir : Paths]

\* device_ids.iter().map(|id| id.to_string()).collect()
RECURSIVE map_to_string(_)
map_to_string(ids) ==
    IF ids = <<>> THEN <<>>
    ELSE <<to_string(Head(ids))>> \o map_to_string(Tail(ids))

\* [String]::join(sep)
RECURSIVE join(_, _)
join(xs, sep) ==
    IF xs = <<>> THEN <<>>
    ELSE IF Len(xs) = 1 THEN xs[1]
    ELSE xs[1] \o <<sep>> \o join(Tail(xs), sep)

\* The loop over data_paths adding the flag once, before all the paths.
data_path_args_one_flag(paths) ==
    IF paths = <<>> THEN <<>> ELSE <<<<"--data_path">>>> \o paths

\* for data_path in &config.data_paths { cmd.arg("--data_path").arg(data_path); }
RECURSIVE data_path_args(_)
data_path_args(paths) ==
    IF paths = <<>> THEN <<>>
    ELSE <<<<"--data_path">>, Head(paths)>> \o data_path_args(Tail(paths))

\* if let Some(x) = field { cmd.arg(flag).arg(value of x); }
if_let_Some(field, flag, value) ==
    IF field.some THEN <<<<flag>>, value>> ELSE <<>>

\* The arguments start_training gives the Command, after the program name.
training_args(c) ==
    <<<<"train.py">>,
      <<"--model_type">>, key(c.model_type),
      <<"--config_path">>, c.config_path,
      <<"--results_path">>, c.results_path>>
    \o if_let_Some(c.start_checkpoint, "--start_check_point", c.start_checkpoint.v)
    \o data_path_args(c.data_paths)
    \o if_let_Some(c.valid_path, "--valid_path", c.valid_path.v)
    \o if_let_Some(c.num_workers, "--num_workers", to_string(c.num_workers.v))
    \o if_let_Some(c.device_ids, "--device_ids",
                   join(map_to_string(c.device_ids.v), ","))

\* The arguments of run_inference with --input_folder and --store_dir given
\* each other's value.
inference_args_crossed(c) ==
    <<<<"inference.py">>,
      <<"--model_type">>, key(c.model_type),
      <<"--config_path">>, c.config_path,
      <<"--start_check_point">>, c.start_checkpoint,
      <<"--input_folder">>, c.store_dir,
      <<"--store_dir">>, c.input_folder>>

\* The arguments run_inference gives the Command, after the program name.
inference_args(c) ==
    <<<<"inference.py">>,
      <<"--model_type">>, key(c.model_type),
      <<"--config_path">>, c.config_path,
      <<"--start_check_point">>, c.start_checkpoint,
      <<"--input_folder">>, c.input_folder,
      <<"--store_dir">>, c.store_dir>>

\* A start call up to its Command, for any config of the bounded sets.
ArgvInit ==
    /\ ManagerNew
    /\ IoIdle
    /\ line = <<>> /\ event = <<>>
    /\ \/ kind = "training" /\ config \in TrainingConfig
       \/ kind = "inference" /\ config \in InferenceConfig
    /\ argv = <<>>
    /\ applied = "none"
    /\ AppNew

start_training_args ==
    /\ kind = "training" /\ applied = "none"
    /\ argv' = training_args(config)
    /\ applied' = "training_args"
    /\ UNCHANGED <<vars, uiVars, ioVars, line, event, config>>

run_inference_args ==
    /\ kind = "inference" /\ applied = "none"
    /\ argv' = inference_args(config)
    /\ applied' = "inference_args"
    /\ UNCHANGED <<vars, uiVars, ioVars, line, event, config>>

ArgvNext == start_training_args \/ run_inference_args

ArgvSpec == ArgvInit /\ [][ArgvNext]_allVars

\* --------------------------------------- claims on the argument vectors
\* How often flag f occurs among the arguments, and the arguments that
\* follow its occurrences, in order.
Count(a, f) == Cardinality({i \in 1..Len(a) : a[i] = <<f>>})

RECURSIVE ValuesOf(_, _)
ValuesOf(a, f) ==
    IF Len(a) < 2 THEN <<>>
    ELSE IF a[1] = <<f>> THEN <<a[2]>> \o ValuesOf(SubSeq(a, 3, Len(a)), f)
    ELSE ValuesOf(Tail(a), f)

\* Flag f occurs once followed by a value that satisfies `fits` when the
\* field is present, and not at all when it is absent.
OnceIfPresent(a, f, field, fits(_)) ==
    IF field.some
    THEN Count(a, f) = 1 /\ Len(ValuesOf(a, f)) = 1 /\ fits(ValuesOf(a, f)[1])
    ELSE Count(a, f) = 0

\* The text w is the numerals of ids, separated by commas.
ListsIds(w, ids) ==
    IF ids = <<>> THEN w = <<>>
    ELSE LET parts == split(w, ",") IN
         /\ Len(parts) = Len(ids)
         /\ \A i \in 1..Len(ids) :
                AllDigits(parts[i]) /\ DigitsValue(parts[i]) = ids[i]

\* The run r occurs in a from position i on.
RunAt(a, i, r) == i + Len(r) - 1 <= Len(a) /\ SubSeq(a, i, i + Len(r) - 1) = r

TwoDataPaths == <<<<"--data_path">>, <<"/a">>, <<"--data_path">>, <<"/b">>>>
FourWorkers == <<<<"--num_workers">>, <<"4">>>>

\* C13: --data_path occurs once per entry of data_paths, each followed by
\* its entry, in the order of the list; --start_check_point, --valid_path,
\* --num_workers and --device_ids each occur once, followed by the value of
\* the field, when the field is present and not at all when it is absent.
\* For data_paths = ["/a", "/b"], num_workers = 4 and no device_ids the
\* arguments hold `--data_path /a --data_path /b` and then `--num_workers 4`
\* (next to each other when there is no valid_path), and no --device_ids.
C13_FlagsByPresence ==
    applied = "training_args" =>
        /\ Count(argv, "--data_path") = Len(config.data_paths)
        /\ ValuesOf(argv, "--data_path") = config.data_paths
        /\ OnceIfPresent(argv, "--start_check_point", config.start_checkpoint,
                         LAMBDA w : w = config.start_checkpoint.v)
        /\ OnceIfPresent(argv, "--valid_path", config.valid_path,
                         LAMBDA w : w = config.valid_path.v)
        /\ OnceIfPresent(argv, "--num_workers", config.num_workers,
                         LAMBDA w : AllDigits(w)
                                    /\ DigitsValue(w) = config.num_workers.v)
        /\ OnceIfPresent(argv, "--device_ids", config.device_ids,
                         LAMBDA w : ListsIds(w, config.device_ids.v))
        /\ (/\ config.data_paths = <<<<"/a">>, <<"/b">>>>
            /\ config.num_workers = Some(4)
            /\ ~config.device_ids.some) =>
              /\ Count(argv, "--device_ids") = 0
              /\ \E i, j \in 1..Len(argv) :
                    /\ RunAt(argv, i, TwoDataPaths)
                    /\ RunAt(argv, j, FourWorkers)
                    /\ j >= i + Len(TwoDataPaths)
                    /\ ~config.valid_path.some => j = i + Len(TwoDataPaths)

\* C13 witness: the config of the example, with a checkpoint and no
\* valid_path; the arguments end with the six of the example.
C13_Witness ==
    /\ applied = "training_args"
    /\ config.data_paths = <<<<"/a">>, <<"/b">>>>
    /\ config.num_workers = Some(4)
    /\ ~config.device_ids.some /\ ~config.valid_path.some
    /\ config.start_checkpoint.some
    /\ RunAt(argv, Len(argv) - 5, TwoDataPaths \o FourWorkers)

\* C14: the arguments of run_inference are inference.py and then the five
\* flags --model_type, --config_path, --start_check_point, --input_folder,
\* --store_dir in this order, each once and each followed by the model key
\* or by the config field of its name, unchanged; they are the same for
\* every config equal to this one.
C14_InferenceArgsExact ==
    applied = "inference_args" =>
        /\ argv = <<<<"inference.py">>,
                    <<"--model_type">>, key(config.model_type),
                    <<"--config_path">>, config.config_path,
                    <<"--start_check_point">>, config.start_checkpoint,
                    <<"--input_folder">>, config.input_folder,
                    <<"--store_dir">>, config.store_dir>>
        /\ \A f \in {"--model_type", "--config_path", "--start_check_point",
                     "--input_folder", "--store_dir"} : Count(argv, f) = 1
        /\ \A c \in InferenceConfig : c = config => inference_args(c) = argv

\* C14 witness: a config whose input folder and store directory differ, as
\* do its config path and checkpoint.
C14_Witness ==
    /\ applied = "inference_args"
    /\ config.input_folder # config.store_dir
    /\ config.config_path # config.start_checkpoint
    /\ Len(argv) > 0

\* ================================================= the streams of one job
\* One job, followed line by line: the child's program makes up to
\* MaxWrites writes of one line each, to either stream, and then exits; a
\* pipe holds up to PipeCap lines, and a write to a full pipe suspends the
\* child until the pipe's reader has taken a line or has gone.
MaxWrites == 3
PipeCap == 1

\* A line that is not valid UTF-8: next_line() gives Err for it.
BadLine == <<"invalid UTF-8">>
StdoutLines == {<<"epoch:", " ", "1">>, <<"SDR:", " ", "1">>, <<"a">>, BadLine}
StderrLines == {<<"epoch:", " ", "1">>, BadLine}
LinesOf(s) == IF s = "out" THEN StdoutLines ELSE StderrLines

DrainInit ==
    /\ kind \in {"training", "inference"}
    /\ ManagerNew
    /\ FnIdle
    /\ pipe = [out |-> <<>>, err |-> <<>>]
    /\ want = NoWrite
    /\ todo \in 0..MaxWrites
    /\ wroteOut = <<>> /\ sent = <<>>
    /\ rx = TRUE /\ chan = <<>> /\ sendErrs = 0
    /\ AppNew

\* The one start call of the job.
first_start_training == nstarts = 0 /\ start_training
first_run_inference == nstarts = 0 /\ run_inference

\* The child enters a write of line l to stream s.
child_begin_write ==
    \E p \in Alive, s \in {"out", "err"} :
      \E l \in LinesOf(s) :
        /\ want = NoWrite /\ todo > 0
        /\ want' = [s |-> s, line |-> l]
        /\ todo' = todo - 1
        /\ UNCHANGED <<vars, uiVars, fnVars, pipe, wroteOut, sent, chanVars>>

\* The write returns: the line is in the pipe; or the stream has no reader
\* (its drain has ended and dropped the read end, or the stream was never
\* captured) and the line goes nowhere.
child_write ==
    \E p \in Alive :
        /\ want # NoWrite
        /\ IF task[p][want.s] = "running"
           THEN /\ Len(pipe[want.s]) < PipeCap
                /\ pipe' = [pipe EXCEPT ![want.s] = Append(@, want.line)]
                /\ wroteOut' = IF want.s = "out" THEN Append(wroteOut, want.line)
                               ELSE wroteOut
           ELSE UNCHANGED <<pipe, wroteOut>>
        /\ want' = NoWrite
        /\ UNCHANGED <<vars, uiVars, fnVars, todo, sent, chanVars>>

\* The child's program has made its writes and exits.
child_done == want = NoWrite /\ todo = 0 /\ child_exit

\* UnboundedSender::send with the event put before those sent earlier.
send_first(ch, e) == <<e>> \o ch

\* UnboundedSender::send(e): the event joins those sent, after them.
send(ch, e) == Append(ch, e)

\* parse_training_output(&line), for each line that stdout may carry.
parsed == [l \in StdoutLines |-> parse_training_output(l)]

\* One turn of `while let Ok(Some(line)) = lines.next_line().await { body }`
\* on stream s of child p: a line is taken from the pipe and the body runs
\* on it (parsing it and sending the event when `parses`, printing it
\* otherwise, which may panic), or the line is not UTF-8 and the loop ends;
\* with the pipe empty and its write end closed the loop ends too.  send
\* puts the event in the channel, which has no bound, or returns Err when
\* the receiver is gone, and the body drops that Result.
drain_line(p, s, parses) ==
    /\ task[p][s] = "running"
    /\ \/ /\ pipe[s] # <<>>
          /\ pipe' = [pipe EXCEPT ![s] = Tail(@)]
          /\ LET l == Head(pipe[s]) IN
             IF l = BadLine
             THEN /\ task' = [task EXCEPT ![p][s] = "readerr"]
                  /\ UNCHANGED <<sent, chanVars>>
             ELSE IF parses
             THEN /\ sent' = IF parsed[l].some THEN send(sent, parsed[l].v)
                             ELSE sent
                  /\ IF ~parsed[l].some THEN UNCHANGED chanVars
                     ELSE IF rx
                     THEN chan' = Append(chan, parsed[l].v)
                          /\ UNCHANGED <<rx, sendErrs>>
                     ELSE sendErrs' = sendErrs + 1      \* let _ = Err(..)
                          /\ UNCHANGED <<rx, chan>>
                  /\ UNCHANGED task
             ELSE /\ \/ UNCHANGED task
                     \/ task' = [task EXCEPT ![p][s] = "panicked"]
                  /\ UNCHANGED <<sent, chanVars>>
       \/ /\ pipe[s] = <<>> /\ ~proc[p][s]
          /\ task' = [task EXCEPT ![p][s] = "eof"]
          /\ UNCHANGED <<pipe, sent, chanVars>>
    /\ UNCHANGED <<uiVars, fnVars, kind, process, pc, cur, status, proc, nstarts,
                   results, lastResult, lastStop, want, todo, wroteOut>>

\* The stderr loop run only once the stdout loop has ended.
training_stderr_line_in_turn ==
    \E p \in Pids :
        kind = "training" /\ TaskOver(task[p].out) /\ drain_line(p, "err", FALSE)

\* The stdout loop with a channel of one event: send waits for room.
training_stdout_line_bounded ==
    \E p \in Pids :
        kind = "training" /\ Len(chan) < 1 /\ drain_line(p, "out", TRUE)

training_stdout_line == \E p \in Pids : kind = "training" /\ drain_line(p, "out", TRUE)
training_stderr_line == \E p \in Pids : kind = "training" /\ drain_line(p, "err", FALSE)
inference_stderr_line == \E p \in Pids : kind = "inference" /\ drain_line(p, "err", FALSE)
inference_stdout_line == \E p \in Pids : kind = "inference" /\ drain_line(p, "out", FALSE)

DrainNext ==
    \/ first_start_training
    \/ training_join_stdout
    \/ training_join_stderr
    \/ training_stdout_line
    \/ training_stderr_line
    \/ first_run_inference
    \/ inference_wait
    \/ inference_join_stdout
    \/ inference_join_stderr
    \/ inference_stdout_line
    \/ inference_stderr_line
    \/ child_begin_write
    \/ child_write
    \/ child_done

DrainSpec == DrainInit /\ [][DrainNext]_allVars

\* The runtime runs each of the two spawned drain tasks, the operating
\* system runs the child, and the caller of start polls its future to the
\* end.  (Of the steps put together under one condition, one at most is
\* enabled in a state.)
StdoutDrain == training_stdout_line \/ inference_stdout_line
StderrDrain == training_stderr_line \/ inference_stderr_line
Child == child_begin_write \/ child_write \/ child_done
Awaits ==
    \/ training_join_stdout \/ training_join_stderr
    \/ inference_wait \/ inference_join_stdout \/ inference_join_stderr

FairDrainSpec ==
    /\ DrainSpec
    /\ WF_allVars(StdoutDrain)
    /\ WF_allVars(StderrDrain)
    /\ WF_allVars(Child)
    /\ WF_allVars(Awaits)

\* ------------------------------------------------ claims on the streams
\* The events of the lines ls, in their order: what parse_training_output
\* returns for each, the lines without an event left out.
RECURSIVE Events(_)
Events(ls) ==
    IF ls = <<>> THEN <<>>
    ELSE LET e == parse_training_output(Head(ls)) IN
         (IF e.some THEN <<e.v>> ELSE <<>>) \o Events(Tail(ls))

\* The stdout lines read so far: those written, less those still in the pipe.
ReadOut == SubSeq(wroteOut, 1, Len(wroteOut) - Len(pipe.out))

Blocked(s) ==
    /\ want.s = s
    /\ Len(pipe[s]) >= PipeCap
    /\ \E p \in Alive : task[p][s] = "running"

\* C20: a child suspended in a write to a full pipe is let go on, on either
\* stream and whatever the other stream holds; and a start call that has
\* begun returns.
C20_NeverBlockedForever ==
    /\ Blocked("out") ~> ~Blocked("out")
    /\ Blocked("err") ~> ~Blocked("err")
    /\ (pc # "idle") ~> (pc = "idle")

\* C20 witness: the child is suspended in a write to stderr while start
\* awaits the stdout drain, whose pipe is empty.
C20_Witness ==
    /\ Blocked("err")
    /\ pc = "join_stdout"
    /\ pipe.out = <<>>

\* ------------------------------------- claims on the priority of the rules
\* C23: the function returns one event at most, an epoch event (sdr empty)
\* or a metric event (no epoch); and for a line in which the first "epoch:"
\* is followed by an integer token and some "SDR:" by a decimal token, it
\* returns the epoch event, with sdr empty.
C23_EpochBeforeSdr ==
    applied = "parse" =>
        /\ event.some => (event.v.sdr.some => event.v.epoch = 0)
        /\ (/\ contains(line, "epoch:")
            /\ AllDigits(TokenAfter(line, FirstMarker(line, "epoch:")))
            /\ \E i \in 1..Len(line) :
                  line[i] = "SDR:" /\ IsDecimal(TokenAfter(line, i))) =>
              /\ event.some
              /\ event.v.epoch =
                   DigitsValue(TokenAfter(line, FirstMarker(line, "epoch:")))
              /\ ~event.v.sdr.some

\* C23 witness: "SDR:" with a number and then "epoch:" with a number; the
\* event is the epoch event.
C23_Witness ==
    /\ applied = "parse"
    /\ contains(line, "SDR:") /\ contains(line, "epoch:")
    /\ FirstMarker(line, "SDR:") < FirstMarker(line, "epoch:")
    /\ IsDecimal(TokenAfter(line, FirstMarker(line, "SDR:")))
    /\ AllDigits(TokenAfter(line, FirstMarker(line, "epoch:")))
    /\ event.some /\ event.v.epoch = 1 /\ ~event.v.sdr.some

\* C24 as stated: a line in which "SDR:" is followed by a decimal token and
\* "epoch:" by a token that is no integer gives the metric event of that
\* token.
C24_SdrWhenEpochInvalid ==
    applied = "parse" =>
        \A i, j \in 1..Len(line) :
            (/\ line[i] = "SDR:" /\ IsDecimal(TokenAfter(line, i))
             /\ line[j] = "epoch:" /\ ~AllDigits(TokenAfter(line, j))) =>
                /\ event.some
                /\ event.v.sdr = Some(DecimalValue(TokenAfter(line, i)))

\* C24, amended: a line in which the first "epoch:" is followed by no
\* integer (its token, read up to the next blank or the next "epoch:", is
\* missing or no integer) gives no event, also when "SDR:" is followed by a
\* decimal token in the same line: the "SDR:" rule is for lines without
\* "epoch:".
C24_EpochMarkerDecides ==
    (applied = "parse" /\ contains(line, "epoch:")) =>
        (~AllDigits(TokenUntil(line, FirstMarker(line, "epoch:"), {"epoch:"}))
            => event = NoEvent)

\* C24 witness: "epoch:" with a word and "SDR:" with a number, and no event.
C24_Witness ==
    /\ applied = "parse"
    /\ contains(line, "epoch:") /\ contains(line, "SDR:")
    /\ TokenAfter(line, FirstMarker(line, "epoch:")) = <<"a">>
    /\ IsDecimal(TokenAfter(line, FirstMarker(line, "SDR:")))
    /\ event = NoEvent

\* ------------------------------------------------ claims on read errors
\* C22: when start returns for a job of which a drain ended by a read
\* error (no drain having panicked) and whose process has ended, the read
\* error is no error of start, and the result tells success from failure
\* by the exit status of the process.
C22_ReadErrorAsEof ==
    [][(/\ StartReturns
        /\ lastResult'.pid # None
        /\ Drained(task'[lastResult'.pid].out)
        /\ Drained(task'[lastResult'.pid].err)
        /\ "readerr" \in {task'[lastResult'.pid].out, task'[lastResult'.pid].err}
        /\ proc'[lastResult'.pid].st # "alive") =>
          /\ lastResult'.ok
          /\ IF kind = "inference"
             THEN lastResult'.value.success <=> success(lastResult'.status)
             ELSE proc'[lastResult'.pid].st = "exited" =>
                    success(proc'[lastResult'.pid].status)]_vars

\* ============================================== the consumer of the events
\* The other end of the progress channel, held by the caller of
\* start_training: it takes an event from the channel, leaves the events
\* there, or drops the receiver, and the events still in the channel with it.
recv ==
    /\ rx /\ chan # <<>>
    /\ chan' = Tail(chan)
    /\ UNCHANGED <<vars, uiVars, fnVars, pipe, want, todo, wroteOut, sent, rx, sendErrs>>

drop_receiver ==
    /\ rx
    /\ rx' = FALSE
    /\ chan' = <<>>
    /\ UNCHANGED <<vars, uiVars, fnVars, pipe, want, todo, wroteOut, sent, sendErrs>>

ConsumerInit == DrainInit /\ kind = "training"

ConsumerNext ==
    \/ first_start_training
    \/ training_join_stdout
    \/ training_join_stderr
    \/ training_stdout_line
    \/ training_stderr_line
    \/ child_begin_write
    \/ child_write
    \/ child_done
    \/ recv
    \/ drop_receiver

ConsumerSpec == ConsumerInit /\ [][ConsumerNext]_allVars

\* As FairDrainSpec; nothing is assumed of the consumer.
FairConsumerSpec ==
    /\ ConsumerSpec
    /\ WF_allVars(StdoutDrain)
    /\ WF_allVars(StderrDrain)
    /\ WF_allVars(Child)
    /\ WF_allVars(Awaits)

\* The stdout drain is running, and has a line to read or the end of the
\* stream to see.
StdoutDraining == \E p \in Pids : task[p].out = "running"
StdoutReady ==
    \E p \in Pids : task[p].out = "running" /\ (pipe.out # <<>> \/ ~proc[p].out)

\* C21: the stdout drain of a training job can take its next turn whenever
\* there is a line or the end of the stream to read, whatever the channel
\* holds and whether or not its receiver exists; a turn that sends with the
\* receiver gone leaves the drain running, the line read and nothing in the
\* channel; and with the receiver gone the drain still comes to its end.
C21_DrainNotBlockedByConsumer ==
    /\ [](StdoutReady => ENABLED training_stdout_line)
    /\ [][(/\ training_stdout_line /\ ~rx
           /\ pipe.out # <<>> /\ Head(pipe.out) # BadLine) =>
             /\ task' = task
             /\ pipe'.out = Tail(pipe.out)
             /\ chan' = chan]_allVars
    /\ (~rx /\ StdoutDraining) ~> ~StdoutDraining

\* C21 witness: two sends failed for want of a receiver, and the drain has
\* gone on to the end of the stream.
C21_Witness ==
    /\ ~rx /\ sendErrs = 2
    /\ \E p \in Pids : task[p].out = "eof"


\* ===================================================== the terminal screens
\* enum Screen
Screen ==
    {"Home", "ModelSelection", "Config", "Training", "Inference",
     "Validation"}

\* ModelType::all_models(): the Vec, in its order. Rust counts its elements
\* from 0, the sequence from 1: models[i] is all_models[i + 1].
all_models ==
    <<"MDX23C", "HtDemucs", "VitLarge23", "TorchSeg", "BsRoformer",
      "MelBandRoformer", "SwinUpernet", "BandIt", "ScNet", "BandItV2",
      "Apollo", "TsBsMamba2", "Conformer", "BsConformer", "ScNetTran",
      "ScNetMasked">>

\* menu_items of draw_home: the rows of the list of Home, from row 0.
menu_items ==
    <<"1. Model Selection", "2. Configuration", "3. Training",
      "4. Inference", "5. Validation", "q. Quit", "h. Help">>

\* handle_enter()
handle_enter ==
    CASE screen = "Home" ->
           /\ previous_screen' = "Home"
           /\ screen' = "ModelSelection"
           /\ selected_index' = 0
           /\ UNCHANGED <<help_visible, selected_model, should_quit>>
      [] screen = "ModelSelection" ->
           /\ selected_model' =
                 IF selected_index < Len(all_models)
                 THEN all_models[selected_index + 1]
                 ELSE selected_model
           /\ UNCHANGED <<screen, selected_index, previous_screen,
                          help_visible, should_quit>>
      [] OTHER -> UNCHANGED uiVars

\* handle_up()
handle_up ==
    /\ selected_index' =
          IF selected_index > 0 THEN selected_index - 1 ELSE selected_index
    /\ UNCHANGED <<screen, previous_screen, help_visible, selected_model,
                   should_quit>>

\* handle_down() with Home taken to have one row more than it has.
handle_down_past_end ==
    LET max_index == CASE screen = "Home" -> 7
                       [] screen = "ModelSelection" -> Len(all_models) - 1
                       [] OTHER -> 0
    IN  /\ selected_index' =
              IF selected_index < max_index THEN selected_index + 1
              ELSE selected_index
        /\ UNCHANGED <<screen, previous_screen, help_visible, selected_model,
                       should_quit>>

\* handle_down()
handle_down ==
    LET max_index == CASE screen = "Home" -> 6
                       [] screen = "ModelSelection" -> Len(all_models) - 1
                       [] OTHER -> 0
    IN  /\ selected_index' =
              IF selected_index < max_index THEN selected_index + 1
              ELSE selected_index
        /\ UNCHANGED <<screen, previous_screen, help_visible, selected_model,
                       should_quit>>

\* handle_esc()
handle_esc ==
    IF screen = "Home"
    THEN /\ should_quit' = TRUE
         /\ UNCHANGED <<screen, selected_index, previous_screen,
                        help_visible, selected_model>>
    ELSE /\ previous_screen' = screen
         /\ screen' = "Home"
         /\ selected_index' = 0
         /\ UNCHANGED <<help_visible, selected_model, should_quit>>

\* One turn of the loop of App::run in which a key press was read: the loop
\* ends once should_quit is set, and while the help is shown any key only
\* hides it.
hide_help ==
    /\ help_visible' = FALSE
    /\ UNCHANGED <<screen, selected_index, previous_screen, selected_model,
                   should_quit>>

\* The arms of `match key.code`.
key_q ==
    /\ ~should_quit
    /\ IF help_visible THEN hide_help
       ELSE /\ should_quit' = TRUE
            /\ UNCHANGED <<screen, selected_index, previous_screen,
                           help_visible, selected_model>>
    /\ UNCHANGED <<vars, fnVars, ioVars>>

key_h ==
    /\ ~should_quit
    /\ IF help_visible THEN hide_help
       ELSE /\ help_visible' = TRUE
            /\ UNCHANGED <<screen, selected_index, previous_screen,
                           selected_model, should_quit>>
    /\ UNCHANGED <<vars, fnVars, ioVars>>

key_enter ==
    /\ ~should_quit
    /\ IF help_visible THEN hide_help ELSE handle_enter
    /\ UNCHANGED <<vars, fnVars, ioVars>>

key_up ==
    /\ ~should_quit
    /\ IF help_visible THEN hide_help ELSE handle_up
    /\ UNCHANGED <<vars, fnVars, ioVars>>

key_down ==
    /\ ~should_quit
    /\ IF help_visible THEN hide_help ELSE handle_down
    /\ UNCHANGED <<vars, fnVars, ioVars>>

key_esc ==
    /\ ~should_quit
    /\ IF help_visible THEN hide_help ELSE handle_esc
    /\ UNCHANGED <<vars, fnVars, ioVars>>

\* `_ => {}`
key_other ==
    /\ ~should_quit
    /\ IF help_visible THEN hide_help ELSE UNCHANGED uiVars
    /\ UNCHANGED <<vars, fnVars, ioVars>>

\* The front-end alone: no job is started.
UiInit == Init /\ kind = "training"

UiNext ==
    \/ key_q
    \/ key_h
    \/ key_enter
    \/ key_up
    \/ key_down
    \/ key_esc
    \/ key_other

UiSpec == UiInit /\ [][UiNext]_allVars

\* --------------------------------------------------- claims on the screens
\* C25: after any sequence of key presses selected_index is an index of the
\* list of the screen shown: at most 6 on Home, which is a row of its menu,
\* and below the number of models on ModelSelection; and a selected_model
\* that is set is one of all_models().
C25_SelectionInRange ==
    /\ screen = "Home" =>
          selected_index <= 6 /\ selected_index < Len(menu_items)
    /\ screen = "ModelSelection" => selected_index < Len(all_models)
    /\ selected_model # "None" =>
          \E i \in 1..Len(all_models) : all_models[i] = selected_model

\* ModelSelection was opened from Home, and the last model of the list is
\* highlighted and has been chosen with Enter.
C25_Witness ==
    /\ screen = "ModelSelection"
    /\ previous_screen = "Home"
    /\ selected_index = Len(all_models) - 1
    /\ selected_model = all_models[Len(all_models)]

\* The screen a row of the menu of Home names, for the rows that name one.
ScreenOfItem ==
    <<"ModelSelection", "Config", "Training", "Inference", "Validation">>

\* C26: pressing Enter on Home opens the screen of the highlighted menu
\* item (which makes every screen reachable from Home).
C26_EnterOpensHighlighted ==
    [][(/\ key_enter
        /\ ~help_visible
        /\ screen = "Home"
        /\ selected_index < Len(ScreenOfItem)) =>
          screen' = ScreenOfItem[selected_index + 1]]_allVars

\* What the program does instead: no key leads to a screen other than Home
\* and ModelSelection.
OnlyHomeAndModelSelection == screen \in {"Home", "ModelSelection"}

====
